---- MODULE Spec2Model ----
(***************************************************************************)
(* fitapi: the request pipeline of the equipment API.                      *)
(*                                                                         *)
(*   request -> AuthRequired (JWT middleware) -> EquipmentHandler          *)
(*           -> EquipmentService -> PostgresEquipmentRepository -> table   *)
(*                                                                         *)
(* Every in-flight request is one task.  The middleware, the handler       *)
(* prologue and the service code between two repository calls are          *)
(* synchronous; a request can be overtaken by another request only at a    *)
(* repository call, which is one SQL statement and is atomic.  So there is  *)
(* one action per stretch of code that ends at a repository call or at the *)
(* response.                                                               *)
(*                                                                         *)
(* Encodings.  Equipment ids and timestamps are naturals; an id of 0 is a  *)
(* path parameter that is not the text of a UUID.  Strings that the code   *)
(* only compares or copies are TLA+ strings.  The Authorization header is  *)
(* a sequence of characters, the token being its last "character": the     *)
(* compact serialisation of a JWT, which DecodeToken decodes.              *)
(*                                                                         *)
(* Beside the pipeline: the start of the process (main reads the secret    *)
(* from the environment once, StartSpec) and collection/generate-token.sh  *)
(* with its cache file (TokenSpec).                                        *)
(***************************************************************************)
EXTENDS Integers, Sequences, FiniteSets

(* ------------------------------ bounds --------------------------------- *)

\* number of rows Repository.Create can insert in one behaviour
MaxIds == 2

\* the clock runs from 1 to MaxClock
MaxClock == 2

\* number of requests that arrive in one behaviour
MaxServed == 3

\* number of runs of generate-token.sh and waits between them
MaxCliSteps == 4

\* the request tasks: two requests can be in flight at once
Req == {1, 2}

Users == {"u1", "u2"}

(* ------------------------------ tokens --------------------------------- *)

\* a claim of the token's claim set: absent, a JSON string, or a JSON number
Absent == [kind |-> "absent", val |-> ""]

Str(s) == [kind |-> "string", val |-> s]

Num == [kind |-> "number", val |-> ""]

\* the signing methods golang-jwt registers
HMACAlgs == {"HS256", "HS384", "HS512"}

KnownAlgs == HMACAlgs \cup {"RS256", "ES256", "none"}

\* A decoded token.  sig is what the signature bytes were made with: the
\* algorithm and the key of the signer; "" for both when they are garbage or
\* empty.  exp is 0 when the claim set has no exp.
Tok(wf, alg, sigAlg, sigKey, exp, sub, email) ==
    [wellFormed |-> wf, alg |-> alg, sigAlg |-> sigAlg, sigKey |-> sigKey,
     exp |-> exp, sub |-> sub, email |-> email]

NeverExp == MaxClock + 1

\* the tokens a client can present, by their serialised text
TokenTable ==
    [t \in {"good_u1", "good_u2", "noexp_u2", "wrongkey_u1", "expired_u1",
            "expiring_u1", "none_u1", "none_signed_u2", "rs256_u1",
            "unknownalg_u1", "nosub", "numsub", "emptysub", "garbage"} |->
        CASE t = "good_u1"     -> Tok(TRUE, "HS256", "HS256", "secret", NeverExp, Str("u1"), Str("u1@x"))
          [] t = "good_u2"     -> Tok(TRUE, "HS384", "HS384", "secret", NeverExp, Str("u2"), Absent)
          [] t = "noexp_u2"    -> Tok(TRUE, "HS256", "HS256", "secret", 0, Str("u2"), Num)
          [] t = "wrongkey_u1" -> Tok(TRUE, "HS256", "HS256", "other", NeverExp, Str("u1"), Absent)
          [] t = "expired_u1"  -> Tok(TRUE, "HS256", "HS256", "secret", 1, Str("u1"), Absent)
          [] t = "expiring_u1" -> Tok(TRUE, "HS256", "HS256", "secret", 2, Str("u1"), Absent)
          [] t = "none_u1"     -> Tok(TRUE, "none", "", "", NeverExp, Str("u1"), Absent)
          [] t = "none_signed_u2" -> Tok(TRUE, "none", "HS256", "secret", NeverExp, Str("u2"), Absent)
          [] t = "rs256_u1"    -> Tok(TRUE, "RS256", "RS256", "rsakey", NeverExp, Str("u1"), Absent)
          [] t = "unknownalg_u1" -> Tok(TRUE, "XX999", "HS256", "secret", NeverExp, Str("u1"), Absent)
          [] t = "nosub"       -> Tok(TRUE, "HS256", "HS256", "secret", NeverExp, Absent, Str("u1@x"))
          [] t = "numsub"      -> Tok(TRUE, "HS256", "HS256", "secret", NeverExp, Num, Absent)
          [] t = "emptysub"    -> Tok(TRUE, "HS256", "HS256", "secret", NeverExp, Str(""), Absent)
          [] OTHER             -> Tok(FALSE, "", "", "", 0, Absent, Absent)]

TokenTexts == DOMAIN TokenTable

DecodeToken(text) ==
    IF text \in TokenTexts THEN TokenTable[text]
    ELSE Tok(FALSE, "", "", "", 0, Absent, Absent)

(* ------------------------------ requests ------------------------------- *)

BearerPrefix == <<"B", "e", "a", "r", "e", "r", " ">>

\* the Authorization header values a client can send ("" is <<>>)
Headers ==
    {<<>>}
    \cup {BearerPrefix \o <<t>> : t \in TokenTexts}
    \cup {BearerPrefix,
          <<"good_u1">>,
          <<"b", "e", "a", "r", "e", "r", " ", "good_u1">>,
          <<"B", "e", "a", "r", "e", "r", "good_u2">>,
          <<"B", "a", "s", "i", "c", " ", "good_u1">>}

Routes == {"me", "create", "list", "get", "update", "delete"}

\* routes with an :id path parameter, and routes with a JSON body
IdRoutes == {"get", "update", "delete"}

BodyRoutes == {"create", "update"}

\* the path parameter: the text of a UUID (1..MaxIds) or some other text (0)
PathIds == 0..MaxIds

\* A request body.  json: the body is a JSON object.  name, description:
\* the fields CreateEquipmentRequest and UpdateEquipmentRequest declare.
\* user_id, id, created_at: further fields a client may put in the object.
Body(json, name, description, user_id, id, created_at) ==
    [json |-> json, name |-> name, description |-> description,
     user_id |-> user_id, id |-> id, created_at |-> created_at]

NoBody == Body(FALSE, "", "", "", 0, 0)

Bodies ==
    {Body(TRUE, "a", "x", "", 0, 0),
     Body(TRUE, "a", "x", "u2", 2, 1),
     Body(TRUE, "b", "y", "", 0, 0),
     Body(TRUE, "", "x", "", 0, 0),
     NoBody}

\* the length the validator's min and max tags measure: the number of
\* characters of the string
StrLen(s) == Len(s)

\* the string of n copies of s
RECURSIVE Repeat(_, _)
Repeat(s, n) ==
    IF n = 0 THEN ""
    ELSE LET half == Repeat(s, n \div 2)
         IN  IF n % 2 = 0 THEN half \o half ELSE half \o half \o s

\* rank of a name in the collation ORDER BY name uses
NameRank(s) == CASE s = "" -> 0 [] s = "a" -> 1 [] s = "b" -> 2 [] OTHER -> 3

(* ------------------------------ state ---------------------------------- *)

VARIABLES
    store,      \* the equipment table: a set of rows
    nextId,     \* how many ids uuid.New has handed out
    now,        \* the clock NOW() and the token validation read
    req,        \* the request tasks
    served,     \* how many requests have arrived
    env,        \* SUPABASE_JWT_SECRET in the environment of the process
    proc,       \* the process: "starting", "serving" or "crashed"
    jwtSecret,  \* the secret the middleware read when it was built
    cli         \* generate-token.sh: its clock, cache file and output

vars == <<store, nextId, now, req, served, env, proc, jwtSecret, cli>>

Equipment(id, name, description, user_id, created_at, updated_at) ==
    [id |-> id, name |-> name, description |-> description,
     user_id |-> user_id, created_at |-> created_at, updated_at |-> updated_at]

\* A response: the status; what the JSON body is ("error": an object with
\* "error" and maybe "detail", "entity": one equipment, "list": an array of
\* equipment, "null", "me": the object /api/me answers with, "none": no
\* body); the "error" and "detail" members; the equipment; the members of
\* the /api/me object.
Response(status, kind, error, detail, body, me) ==
    [status |-> status, kind |-> kind, error |-> error, detail |-> detail,
     body |-> body, me |-> me]

NoResponse == Response(0, "", "", "", <<>>, <<>>)

ErrorJSON(status, error) == Response(status, "error", error, "", <<>>, <<>>)

\* the keys AuthRequired sets on the gin context
NoCtx == [set |-> FALSE, user_id |-> "", user_email |-> ""]

\* A request task.  pc: "idle", "handler" (past the middleware, before the
\* handler), the service method whose repository call is next,
\* "done" (answered).  caller: the userID the handler hands the service.
\* equipment: the service's *Equipment.  The rest records what happened:
\* handlerRan whether a handler ran, found the result of FindByID ("row" or
\* its error) and foundOwner the user_id of the row, calls the repository
\* methods called, fault whether the last repository call failed to run.
IdleReq ==
    [pc |-> "idle", route |-> "", header |-> <<>>, id |-> 0, body |-> NoBody,
     ctx |-> NoCtx, caller |-> "", equipment |-> <<>>, resp |-> NoResponse,
     handlerRan |-> FALSE, found |-> "", foundOwner |-> "",
     calls |-> {}, fault |-> FALSE]

\* the script's world: time is date +%s, cache the file .token_cache.json
\* (its text is a sequence of lines), out what the last run wrote to stdout
\* (<<>>: an empty line), status its exit status, issued the number of
\* tokens Supabase has issued, steps the number of runs and waits so far
NoFile == [exists |-> FALSE, text |-> <<>>]

NoCli == [time |-> 0, cache |-> NoFile, out |-> <<>>, status |-> 0,
          issued |-> 0, steps |-> 0]

\* the server is up: main has built the middleware with the secret of the
\* environment and the router runs
Init ==
    /\ store = {}
    /\ nextId = 0
    /\ now = 1
    /\ req = [r \in Req |-> IdleReq]
    /\ served = 0
    /\ env = "secret"
    /\ proc = "serving"
    /\ jwtSecret = "secret"
    /\ cli = NoCli

(* --------------------------- AuthRequired ------------------------------ *)

HasPrefix(s, prefix) ==
    /\ Len(s) >= Len(prefix)
    /\ SubSeq(s, 1, Len(prefix)) = prefix

\* strings.TrimPrefix: s without the leading prefix, or s itself
TrimPrefix(s, prefix) ==
    IF HasPrefix(s, prefix) THEN SubSeq(s, Len(prefix) + 1, Len(s)) ELSE s

\* a Keyfunc that reads SUPABASE_JWT_SECRET at every request
KeyFuncReadsEnv(token) ==
    IF token.alg \in HMACAlgs
    THEN [err |-> FALSE, key |-> env]
    ELSE [err |-> TRUE, key |-> ""]

\* the Keyfunc handed to jwt.Parse: only an HMAC method gets the secret
KeyFunc(token) ==
    IF token.alg \in HMACAlgs
    THEN [err |-> FALSE, key |-> jwtSecret]
    ELSE [err |-> TRUE, key |-> ""]

\* SigningMethod.Verify with a []byte key.  HMAC recomputes the MAC with the
\* key; "none" wants the UnsafeAllowNoneSignatureType key and the RSA and
\* ECDSA methods want a public key, so with a []byte key they fail.
Verify(token, key) ==
    /\ token.alg \in HMACAlgs
    /\ token.sigAlg = token.alg
    /\ token.sigKey = key

\* a validator that does not look at exp
ValidateClaimsNoExp(token, t) == TRUE

\* Validator.Validate on the MapClaims: exp, when present, must be after now
ValidateClaims(token, t) == token.exp = 0 \/ t < token.exp

\* Parser.ParseUnverified in the place of jwt.Parse: no signature check
JwtParseUnverified(tokenString, t) ==
    LET token == IF Len(tokenString) = 1 THEN DecodeToken(tokenString[1])
                 ELSE DecodeToken("")
    IN  IF ~token.wellFormed THEN [err |-> "token is malformed", valid |-> FALSE, token |-> token]
        ELSE [err |-> "", valid |-> TRUE, token |-> token]

\* jwt.Parse(tokenString, keyfunc) at time t: the error ("" for nil) and
\* token.Valid
JwtParse(tokenString, t) ==
    LET token == IF Len(tokenString) = 1 THEN DecodeToken(tokenString[1])
                 ELSE DecodeToken("")
        k == KeyFunc(token)
    IN  IF ~token.wellFormed THEN [err |-> "token is malformed", valid |-> FALSE, token |-> token]
        ELSE IF token.alg \notin KnownAlgs THEN [err |-> "signing method (alg) is unavailable", valid |-> FALSE, token |-> token]
        ELSE IF k.err THEN [err |-> "unexpected signing method", valid |-> FALSE, token |-> token]
        ELSE IF ~Verify(token, k.key) THEN [err |-> "signature is invalid", valid |-> FALSE, token |-> token]
        ELSE IF ~ValidateClaims(token, t) THEN [err |-> "token is expired", valid |-> FALSE, token |-> token]
        ELSE [err |-> "", valid |-> TRUE, token |-> token]

\* the middleware without its first check
AuthOutcomeNoEmptyCheck(authHeader, t) ==
    LET tokenString == TrimPrefix(authHeader, BearerPrefix)
        parsed == JwtParse(tokenString, t)
        claims == parsed.token
    IN  IF tokenString = authHeader
        THEN [abort |-> TRUE, ctx |-> NoCtx,
              resp |-> ErrorJSON(401, "invalid authorization header format, expected 'Bearer <token>'")]
        ELSE IF parsed.err # "" \/ ~parsed.valid
        THEN [abort |-> TRUE, ctx |-> NoCtx,
              resp |-> ErrorJSON(401, "invalid or expired token")]
        ELSE IF claims.sub.kind # "string"
        THEN [abort |-> TRUE, ctx |-> NoCtx,
              resp |-> ErrorJSON(401, "invalid user_id in token")]
        ELSE [abort |-> FALSE,
              ctx |-> [set |-> TRUE, user_id |-> claims.sub.val,
                       user_email |-> IF claims.email.kind = "string"
                                      THEN claims.email.val ELSE ""],
              resp |-> NoResponse]

\* the outcome of the middleware for a header at time t: abort with a
\* response, or c.Next() with user_id and user_email set
AuthOutcome(authHeader, t) ==
    LET tokenString == TrimPrefix(authHeader, BearerPrefix)
        parsed == JwtParse(tokenString, t)
        claims == parsed.token
    IN  IF authHeader = <<>>
        THEN [abort |-> TRUE, ctx |-> NoCtx,
              resp |-> ErrorJSON(401, "missing authorization header")]
        ELSE IF tokenString = authHeader
        THEN [abort |-> TRUE, ctx |-> NoCtx,
              resp |-> ErrorJSON(401, "invalid authorization header format, expected 'Bearer <token>'")]
        ELSE IF parsed.err # "" \/ ~parsed.valid
        THEN [abort |-> TRUE, ctx |-> NoCtx,
              resp |-> ErrorJSON(401, "invalid or expired token")]
        ELSE IF claims.sub.kind # "string"
        THEN [abort |-> TRUE, ctx |-> NoCtx,
              resp |-> ErrorJSON(401, "invalid user_id in token")]
        ELSE [abort |-> FALSE,
              ctx |-> [set |-> TRUE, user_id |-> claims.sub.val,
                       user_email |-> IF claims.email.kind = "string"
                                      THEN claims.email.val ELSE ""],
              resp |-> NoResponse]

(* ------------------------------ actions -------------------------------- *)

\* a request: the route, the Authorization header, the :id path parameter
\* (0 on the routes without one) and the body (NoBody on the routes that
\* read none)
Request(route, header, id, body) ==
    [route |-> route, header |-> header, id |-> id, body |-> body]

RequestsOf(routes, headers, ids, bodies) ==
    {Request(route, header,
             IF route \in IdRoutes THEN id ELSE 0,
             IF route \in BodyRoutes THEN body ELSE NoBody) :
        route \in routes, header \in headers, id \in ids, body \in bodies}

\* the middleware on an arriving request, which a free task takes, writing
\* its 401 without c.Abort()
AuthRequiredNoAbort(r, request) ==
    /\ proc = "serving"
    /\ req[r].pc = "idle"
    /\ served < MaxServed
    /\ LET out == AuthOutcome(request.header, now)
       IN  req' = [req EXCEPT ![r] =
                     [IdleReq EXCEPT !.pc = "handler",
                                     !.route = request.route,
                                     !.header = request.header,
                                     !.id = request.id,
                                     !.body = request.body,
                                     !.ctx = out.ctx,
                                     !.resp = out.resp]]
    /\ served' = served + 1
    /\ UNCHANGED <<store, nextId, now, env, proc, jwtSecret, cli>>

\* A request arrives on a protected route, a free task takes it and the
\* middleware runs: 401 and Abort, or the context keys and Next.
AuthRequired(r, request) ==
    /\ proc = "serving"
    /\ req[r].pc = "idle"
    /\ served < MaxServed
    /\ LET out == AuthOutcome(request.header, now)
       IN  req' = [req EXCEPT ![r] =
                     [IdleReq EXCEPT !.pc = IF out.abort THEN "done" ELSE "handler",
                                     !.route = request.route,
                                     !.header = request.header,
                                     !.id = request.id,
                                     !.body = request.body,
                                     !.ctx = out.ctx,
                                     !.resp = out.resp]]
    /\ served' = served + 1
    /\ UNCHANGED <<store, nextId, now, env, proc, jwtSecret, cli>>

(* ---------------------------- repository ------------------------------- *)

ErrNoRows == "no rows in result set"

\* the statement did not run: connection lost, timeout, ...
ErrConn == "connection lost"

\* SQLSTATE 22P02: the id column is of type UUID and the parameter is no UUID
ErrSyntax == "invalid input syntax for type uuid"

RowsWithId(st, id) == {row \in st : row.id = id}

\* a Create that makes an id only for an entity that has none
RepoCreateKeepsId(st, uuid, t, equipment, fault) ==
    LET id == IF equipment.id # 0 THEN equipment.id ELSE uuid
        row == [equipment EXCEPT !.id = id, !.created_at = t, !.updated_at = t]
    IN  IF fault
        THEN [store |-> st, equipment |-> [equipment EXCEPT !.id = id], err |-> ErrConn]
        ELSE [store |-> st \cup {row}, equipment |-> row, err |-> ""]

\* an INSERT that writes NOW() to created_at only and the struct's zero
\* UpdatedAt to updated_at
RepoCreateZeroUpdatedAt(st, uuid, t, equipment, fault) ==
    LET row == [equipment EXCEPT !.id = uuid, !.created_at = t, !.updated_at = 0]
    IN  IF fault
        THEN [store |-> st, equipment |-> [equipment EXCEPT !.id = uuid], err |-> ErrConn]
        ELSE [store |-> st \cup {row}, equipment |-> row, err |-> ""]

\* Create: the id is a fresh UUID, the timestamps are NOW()
RepoCreate(st, uuid, t, equipment, fault) ==
    LET row == [equipment EXCEPT !.id = uuid, !.created_at = t, !.updated_at = t]
    IN  IF fault
        THEN [store |-> st, equipment |-> [equipment EXCEPT !.id = uuid], err |-> ErrConn]
        ELSE [store |-> st \cup {row}, equipment |-> row, err |-> ""]

\* a FindByID whose Scan leaves Description out
FindByIDNoDescription(st, id, fault) ==
    IF fault THEN [equipment |-> <<>>, err |-> ErrConn]
    ELSE IF id = 0 THEN [equipment |-> <<>>, err |-> ErrSyntax]
    ELSE IF RowsWithId(st, id) = {} THEN [equipment |-> <<>>, err |-> ErrNoRows]
    ELSE [equipment |-> <<[(CHOOSE row \in RowsWithId(st, id) : TRUE)
                             EXCEPT !.description = ""]>>,
          err |-> ""]

\* FindByID: SELECT ... WHERE id = $1, scanned into a new Equipment
FindByID(st, id, fault) ==
    IF fault THEN [equipment |-> <<>>, err |-> ErrConn]
    ELSE IF id = 0 THEN [equipment |-> <<>>, err |-> ErrSyntax]
    ELSE IF RowsWithId(st, id) = {} THEN [equipment |-> <<>>, err |-> ErrNoRows]
    ELSE [equipment |-> <<CHOOSE row \in RowsWithId(st, id) : TRUE>>, err |-> ""]

\* the SELECT of FindAll without its WHERE clause
FindAllOrdersNoWhere(st, userID) ==
    LET rows == st
        n == Cardinality(rows)
    IN  {seq \in [1..n -> rows] :
            /\ \A i, j \in 1..n : i # j => seq[i] # seq[j]
            /\ \A i, j \in 1..n : i < j => NameRank(seq[i].name) <= NameRank(seq[j].name)}

\* the orders in which SELECT ... WHERE user_id = $1 ORDER BY name ASC can
\* return the rows: every arrangement of them that ascends by name
FindAllOrders(st, userID) ==
    LET rows == {row \in st : row.user_id = userID}
        n == Cardinality(rows)
    IN  {seq \in [1..n -> rows] :
            /\ \A i, j \in 1..n : i # j => seq[i] # seq[j]
            /\ \A i, j \in 1..n : i < j => NameRank(seq[i].name) <= NameRank(seq[j].name)}

\* an update in two statements of which a request's second one is lost:
\* the name is written, the description stays
RepoUpdateNameOnly(st, t, equipment, fault) ==
    IF fault THEN [store |-> st, equipment |-> equipment, err |-> ErrConn]
    ELSE IF RowsWithId(st, equipment.id) = {}
    THEN [store |-> st, equipment |-> equipment, err |-> ErrNoRows]
    ELSE [store |-> {IF row.id = equipment.id
                     THEN [row EXCEPT !.name = equipment.name, !.updated_at = t]
                     ELSE row : row \in st},
          equipment |-> [equipment EXCEPT !.updated_at = t],
          err |-> ""]

\* an UPDATE that writes every column of the struct, the timestamps from
\* NOW()
RepoUpdateAllColumns(st, t, equipment, fault) ==
    IF fault THEN [store |-> st, equipment |-> equipment, err |-> ErrConn]
    ELSE IF RowsWithId(st, equipment.id) = {}
    THEN [store |-> st, equipment |-> equipment, err |-> ErrNoRows]
    ELSE [store |-> {IF row.id = equipment.id
                     THEN [equipment EXCEPT !.created_at = t, !.updated_at = t]
                     ELSE row : row \in st},
          equipment |-> [equipment EXCEPT !.created_at = t, !.updated_at = t],
          err |-> ""]

\* Update: UPDATE ... SET name, description, updated_at = NOW() WHERE id = $3
\* RETURNING updated_at; Scan fails with ErrNoRows when no row matched
RepoUpdate(st, t, equipment, fault) ==
    IF fault THEN [store |-> st, equipment |-> equipment, err |-> ErrConn]
    ELSE IF RowsWithId(st, equipment.id) = {}
    THEN [store |-> st, equipment |-> equipment, err |-> ErrNoRows]
    ELSE [store |-> {IF row.id = equipment.id
                     THEN [row EXCEPT !.name = equipment.name,
                                      !.description = equipment.description,
                                      !.updated_at = t]
                     ELSE row : row \in st},
          equipment |-> [equipment EXCEPT !.updated_at = t],
          err |-> ""]

\* DELETE FROM equipment, the WHERE clause lost
RepoDeleteAll(st, id, fault) ==
    IF fault THEN [store |-> st, err |-> ErrConn]
    ELSE [store |-> {}, err |-> ""]

\* a Delete that looks at RowsAffected and reports that no row matched
RepoDeleteStrict(st, id, fault) ==
    IF fault THEN [store |-> st, err |-> ErrConn]
    ELSE IF id = 0 THEN [store |-> st, err |-> ErrSyntax]
    ELSE IF RowsWithId(st, id) = {} THEN [store |-> st, err |-> ErrNoRows]
    ELSE [store |-> st \ RowsWithId(st, id), err |-> ""]

\* Delete: DELETE FROM equipment WHERE id = $1; no row is no error
RepoDelete(st, id, fault) ==
    IF fault THEN [store |-> st, err |-> ErrConn]
    ELSE IF id = 0 THEN [store |-> st, err |-> ErrSyntax]
    ELSE [store |-> st \ RowsWithId(st, id), err |-> ""]

(* ------------------------------ handlers ------------------------------- *)

MaxNameLen == 100

MaxDescLen == 500

\* a binding whose max tags exclude the bound itself
BindErrorExclusiveMax(body) ==
    IF ~body.json THEN "EOF"
    ELSE IF body.name = "" THEN "Field validation for 'Name' failed on the 'required' tag"
    ELSE IF StrLen(body.name) >= MaxNameLen THEN "Field validation for 'Name' failed on the 'max' tag"
    ELSE IF StrLen(body.description) >= MaxDescLen THEN "Field validation for 'Description' failed on the 'max' tag"
    ELSE ""

\* ShouldBindJSON into Create/UpdateEquipmentRequest: only name and
\* description are decoded; name is required,min=1,max=100 and description
\* max=500.  The error text, "" for nil.
BindError(body) ==
    IF ~body.json THEN "EOF"
    ELSE IF body.name = "" THEN "Field validation for 'Name' failed on the 'required' tag"
    ELSE IF StrLen(body.name) > MaxNameLen THEN "Field validation for 'Name' failed on the 'max' tag"
    ELSE IF StrLen(body.description) > MaxDescLen THEN "Field validation for 'Description' failed on the 'max' tag"
    ELSE ""

\* the request struct ShouldBindJSON fills
BoundRequest(body) == [name |-> body.name, description |-> body.description]

\* c.GetString("user_email") in the place of c.GetString("user_id")
GetUserIDWrongKey(ctx) == IF ctx.set THEN ctx.user_email ELSE ""

\* c.GetString("user_id"): the key's value, "" when it is not set
GetUserID(ctx) == IF ctx.set THEN ctx.user_id ELSE ""

Finish(r, resp) ==
    req' = [req EXCEPT ![r].pc = "done", ![r].resp = resp, ![r].handlerRan = TRUE]

\* GET /api/me
HandlerMe(r) ==
    /\ req[r].pc = "handler"
    /\ req[r].route = "me"
    /\ Finish(r, Response(200, "me", "", "", <<>>,
                          <<req[r].ctx.user_id, req[r].ctx.user_email>>))
    /\ UNCHANGED <<store, nextId, now, served, env, proc, jwtSecret, cli>>

\* POST /api/equipment taking the owner from the body when it names one
HandlerCreateTrustsBody(r) ==
    /\ req[r].pc = "handler"
    /\ req[r].route = "create"
    /\ LET userID == GetUserID(req[r].ctx)
           request == BoundRequest(req[r].body)
       IN  IF BindError(req[r].body) # ""
           THEN Finish(r, ErrorJSON(400, BindError(req[r].body)))
           ELSE IF userID = ""
           THEN Finish(r, ErrorJSON(401, "user not authenticated"))
           ELSE req' = [req EXCEPT
                          ![r].pc = "CreateEquipment",
                          ![r].handlerRan = TRUE,
                          ![r].caller = userID,
                          ![r].equipment =
                              <<Equipment(0, request.name, request.description,
                                          IF req[r].body.user_id # ""
                                          THEN req[r].body.user_id ELSE userID,
                                          0, 0)>>]
    /\ UNCHANGED <<store, nextId, now, served, env, proc, jwtSecret, cli>>

\* POST /api/equipment up to the call of Repository.Create: bind, read the
\* caller, and CreateEquipment builds the entity
HandlerCreate(r) ==
    /\ req[r].pc = "handler"
    /\ req[r].route = "create"
    /\ LET userID == GetUserID(req[r].ctx)
           request == BoundRequest(req[r].body)
       IN  IF BindError(req[r].body) # ""
           THEN Finish(r, ErrorJSON(400, BindError(req[r].body)))
           ELSE IF userID = ""
           THEN Finish(r, ErrorJSON(401, "user not authenticated"))
           ELSE req' = [req EXCEPT
                          ![r].pc = "CreateEquipment",
                          ![r].handlerRan = TRUE,
                          ![r].caller = userID,
                          ![r].equipment =
                              <<Equipment(0, request.name, request.description, userID, 0, 0)>>]
    /\ UNCHANGED <<store, nextId, now, served, env, proc, jwtSecret, cli>>

\* CreateEquipment from Repository.Create on, and the handler's response
CreateEquipment(r, fault) ==
    /\ req[r].pc = "CreateEquipment"
    /\ nextId < MaxIds
    /\ LET res == RepoCreate(store, nextId + 1, now, req[r].equipment[1], fault)
       IN  /\ store' = res.store
           /\ req' = [req EXCEPT
                        ![r].pc = "done",
                        ![r].calls = @ \cup {"Create"},
                        ![r].fault = fault,
                        ![r].equipment = <<res.equipment>>,
                        ![r].resp =
                            IF res.err # ""
                            THEN Response(500, "error", "failed to create equipment",
                                          "failed to create equipment: " \o res.err, <<>>, <<>>)
                            ELSE Response(201, "entity", "", "", <<res.equipment>>, <<>>)]
    /\ nextId' = nextId + 1
    /\ UNCHANGED <<now, served, env, proc, jwtSecret, cli>>

\* GET /api/equipment up to the call of Repository.FindAll
HandlerList(r) ==
    /\ req[r].pc = "handler"
    /\ req[r].route = "list"
    /\ LET userID == GetUserID(req[r].ctx)
       IN  IF userID = ""
           THEN Finish(r, ErrorJSON(401, "user not authenticated"))
           ELSE req' = [req EXCEPT ![r].pc = "ListEquipment",
                                   ![r].handlerRan = TRUE,
                                   ![r].caller = userID]
    /\ UNCHANGED <<store, nextId, now, served, env, proc, jwtSecret, cli>>

\* ListEquipment: Repository.FindAll, and the handler's response.  The
\* slice FindAll appends to starts nil, so no rows encode as JSON null.
ListEquipment(r, fault) ==
    /\ req[r].pc = "ListEquipment"
    /\ \E rows \in FindAllOrders(store, req[r].caller) :
         req' = [req EXCEPT
                   ![r].pc = "done",
                   ![r].calls = @ \cup {"FindAll"},
                   ![r].fault = fault,
                   ![r].resp =
                       IF fault
                       THEN ErrorJSON(500, "failed to list equipment")
                       ELSE Response(200, IF rows = <<>> THEN "null" ELSE "list",
                                     "", "", rows, <<>>)]
    /\ UNCHANGED <<store, nextId, now, served, env, proc, jwtSecret, cli>>

\* GET /api/equipment/:id up to the call of Repository.FindByID
HandlerGetByID(r) ==
    /\ req[r].pc = "handler"
    /\ req[r].route = "get"
    /\ LET userID == GetUserID(req[r].ctx)
       IN  IF userID = ""
           THEN Finish(r, ErrorJSON(401, "user not authenticated"))
           ELSE req' = [req EXCEPT ![r].pc = "GetEquipment",
                                   ![r].handlerRan = TRUE,
                                   ![r].caller = userID]
    /\ UNCHANGED <<store, nextId, now, served, env, proc, jwtSecret, cli>>

\* PUT /api/equipment/:id leaving the binding to the service, after the
\* existence and ownership phases
HandlerUpdateBindsLate(r) ==
    /\ req[r].pc = "handler"
    /\ req[r].route = "update"
    /\ LET userID == GetUserID(req[r].ctx)
       IN  IF userID = ""
           THEN Finish(r, ErrorJSON(401, "user not authenticated"))
           ELSE req' = [req EXCEPT ![r].pc = "GetEquipment",
                                   ![r].handlerRan = TRUE,
                                   ![r].caller = userID]
    /\ UNCHANGED <<store, nextId, now, served, env, proc, jwtSecret, cli>>

\* PUT /api/equipment/:id up to the call of Repository.FindByID: read the
\* caller, then bind
HandlerUpdate(r) ==
    /\ req[r].pc = "handler"
    /\ req[r].route = "update"
    /\ LET userID == GetUserID(req[r].ctx)
       IN  IF userID = ""
           THEN Finish(r, ErrorJSON(401, "user not authenticated"))
           ELSE IF BindError(req[r].body) # ""
           THEN Finish(r, ErrorJSON(400, BindError(req[r].body)))
           ELSE req' = [req EXCEPT ![r].pc = "GetEquipment",
                                   ![r].handlerRan = TRUE,
                                   ![r].caller = userID]
    /\ UNCHANGED <<store, nextId, now, served, env, proc, jwtSecret, cli>>

\* DELETE /api/equipment/:id up to the call of Repository.FindByID
HandlerDelete(r) ==
    /\ req[r].pc = "handler"
    /\ req[r].route = "delete"
    /\ LET userID == GetUserID(req[r].ctx)
       IN  IF userID = ""
           THEN Finish(r, ErrorJSON(401, "user not authenticated"))
           ELSE req' = [req EXCEPT ![r].pc = "GetEquipment",
                                   ![r].handlerRan = TRUE,
                                   ![r].caller = userID]
    /\ UNCHANGED <<store, nextId, now, served, env, proc, jwtSecret, cli>>

(* ------------------------------ service -------------------------------- *)

ErrEquipmentNotFound == "equipment not found"

ErrUnauthorized == "unauthorized to perform this action"

\* GetEquipment without its ownership phase
CheckEquipmentNoOwner(found, userID) ==
    IF found.err = ErrNoRows THEN [err |-> ErrEquipmentNotFound, equipment |-> <<>>]
    ELSE IF found.err # "" THEN [err |-> "failed to get equipment", equipment |-> <<>>]
    ELSE [err |-> "", equipment |-> found.equipment]

\* GetEquipment without the errors.Is(err, pgx.ErrNoRows) branch
CheckEquipmentNoRowsWrapped(found, userID) ==
    IF found.err # "" THEN [err |-> "failed to get equipment", equipment |-> <<>>]
    ELSE IF found.equipment[1].user_id # userID THEN [err |-> ErrUnauthorized, equipment |-> <<>>]
    ELSE [err |-> "", equipment |-> found.equipment]

\* the two phases of GetEquipment on the result of FindByID: the error
\* ("" for nil) and the equipment it returns
CheckEquipment(found, userID) ==
    IF found.err = ErrNoRows THEN [err |-> ErrEquipmentNotFound, equipment |-> <<>>]
    ELSE IF found.err # "" THEN [err |-> "failed to get equipment", equipment |-> <<>>]
    ELSE IF found.equipment[1].user_id # userID THEN [err |-> ErrUnauthorized, equipment |-> <<>>]
    ELSE [err |-> "", equipment |-> found.equipment]

\* handlers that answer ErrUnauthorized like ErrEquipmentNotFound
ErrorResponseHidesForbidden(err, verb) ==
    IF err = ErrEquipmentNotFound \/ err = ErrUnauthorized
    THEN ErrorJSON(404, "equipment not found")
    ELSE ErrorJSON(500, "failed to " \o (IF verb = "access" THEN "get" ELSE verb) \o " equipment")

\* the status and message a handler answers a service error with
ErrorResponse(err, verb) ==
    IF err = ErrEquipmentNotFound THEN ErrorJSON(404, "equipment not found")
    ELSE IF err = ErrUnauthorized
    THEN ErrorJSON(403, "you don't have permission to " \o verb \o " this equipment")
    ELSE ErrorJSON(500, "failed to " \o (IF verb = "access" THEN "get" ELSE verb) \o " equipment")

\* GetEquipment, called by GetByID directly and by UpdateEquipment and
\* DeleteEquipment first: FindByID, existence, ownership.  GetByID answers;
\* UpdateEquipment copies the request's fields onto the fetched equipment
\* and goes on to Repository.Update; DeleteEquipment goes on to
\* Repository.Delete.
GetEquipment(r, fault) ==
    /\ req[r].pc = "GetEquipment"
    /\ LET found == FindByID(store, req[r].id, fault)
           got == CheckEquipment(found, req[r].caller)
           route == req[r].route
           verb == CASE route = "get" -> "access"
                     [] route = "update" -> "update"
                     [] OTHER -> "delete"
           request == BoundRequest(req[r].body)
       IN  req' = [req EXCEPT
                     ![r].calls = @ \cup {"FindByID"},
                     ![r].fault = fault,
                     ![r].found = IF found.err = "" THEN "row" ELSE found.err,
                     ![r].foundOwner = IF found.err = "" THEN found.equipment[1].user_id
                                       ELSE "",
                     ![r].pc = IF got.err # "" \/ route = "get" THEN "done"
                               ELSE IF route = "update" THEN "UpdateEquipment"
                               ELSE "DeleteEquipment",
                     ![r].equipment =
                         IF got.err = "" /\ route = "update"
                         THEN <<[got.equipment[1] EXCEPT
                                   !.name = request.name,
                                   !.description = request.description]>>
                         ELSE got.equipment,
                     ![r].resp =
                         IF got.err # "" THEN ErrorResponse(got.err, verb)
                         ELSE IF route = "get"
                         THEN Response(200, "entity", "", "", got.equipment, <<>>)
                         ELSE NoResponse]
    /\ UNCHANGED <<store, nextId, now, served, env, proc, jwtSecret, cli>>

\* UpdateEquipment from Repository.Update on, and the handler's response
UpdateEquipment(r, fault) ==
    /\ req[r].pc = "UpdateEquipment"
    /\ LET res == RepoUpdate(store, now, req[r].equipment[1], fault)
       IN  /\ store' = res.store
           /\ req' = [req EXCEPT
                        ![r].pc = "done",
                        ![r].calls = @ \cup {"Update"},
                        ![r].fault = fault,
                        ![r].equipment = <<res.equipment>>,
                        ![r].resp =
                            IF res.err # ""
                            THEN ErrorResponse("failed to update equipment", "update")
                            ELSE Response(200, "entity", "", "", <<res.equipment>>, <<>>)]
    /\ UNCHANGED <<nextId, now, served, env, proc, jwtSecret, cli>>

\* DeleteEquipment from Repository.Delete on, and the handler's response
DeleteEquipment(r, fault) ==
    /\ req[r].pc = "DeleteEquipment"
    /\ LET res == RepoDelete(store, req[r].id, fault)
       IN  /\ store' = res.store
           /\ req' = [req EXCEPT
                        ![r].pc = "done",
                        ![r].calls = @ \cup {"Delete"},
                        ![r].fault = fault,
                        ![r].resp =
                            IF res.err # ""
                            THEN ErrorResponse("failed to delete equipment", "delete")
                            ELSE Response(204, "none", "", "", <<>>, <<>>)]
    /\ UNCHANGED <<nextId, now, served, env, proc, jwtSecret, cli>>

\* the response is written and the task ends
Complete(r) ==
    /\ req[r].pc = "done"
    /\ req' = [req EXCEPT ![r] = IdleReq]
    /\ UNCHANGED <<store, nextId, now, served, env, proc, jwtSecret, cli>>

Tick ==
    /\ now < MaxClock
    /\ now' = now + 1
    /\ UNCHANGED <<store, nextId, req, served, env, proc, jwtSecret, cli>>

\* the headers with the valid tokens of the two users
UserHeaders == {BearerPrefix \o <<"good_u1">>, BearerPrefix \o <<"good_u2">>}

\* One request at a time, up to MaxServed requests, on any protected route:
\* every header with one id and one body, the headers of the two users
\* with every id and body, and the token with the empty subject with the
\* bodies that do not bind.  A repository call may fail to run.
Requests ==
    RequestsOf(Routes, Headers, {1}, {Body(TRUE, "a", "x", "u2", 2, 1)})
    \cup RequestsOf(Routes, UserHeaders, PathIds, Bodies)
    \cup RequestsOf(BodyRoutes, {BearerPrefix \o <<"emptysub">>}, {1},
                    {Body(TRUE, "", "x", "", 0, 0), NoBody})

Next ==
    \/ \E request \in Requests : AuthRequired(1, request)
    \/ HandlerMe(1)
    \/ HandlerCreate(1)
    \/ HandlerList(1)
    \/ HandlerGetByID(1)
    \/ HandlerUpdate(1)
    \/ HandlerDelete(1)
    \/ \E fault \in BOOLEAN : CreateEquipment(1, fault)
    \/ \E fault \in BOOLEAN : ListEquipment(1, fault)
    \/ \E fault \in BOOLEAN : GetEquipment(1, fault)
    \/ \E fault \in BOOLEAN : UpdateEquipment(1, fault)
    \/ \E fault \in BOOLEAN : DeleteEquipment(1, fault)
    \/ Complete(1)
    \/ Tick

Spec == Init /\ [][Next]_vars

\* Requests in flight together, within one instant of the clock: up to
\* MaxServed requests of the two users with valid tokens, well-formed ids
\* and valid bodies on the equipment routes, taken by the tasks of Req;
\* every repository call runs.
RaceRequests ==
    RequestsOf(Routes \ {"me"}, UserHeaders, 1..MaxIds,
               {body \in Bodies : body.json /\ body.name # "" /\ body.user_id = ""})

RaceNext ==
    \/ \E r \in Req, request \in RaceRequests : AuthRequired(r, request)
    \/ \E r \in Req : HandlerCreate(r)
    \/ \E r \in Req : HandlerList(r)
    \/ \E r \in Req : HandlerGetByID(r)
    \/ \E r \in Req : HandlerUpdate(r)
    \/ \E r \in Req : HandlerDelete(r)
    \/ \E r \in Req : CreateEquipment(r, FALSE)
    \/ \E r \in Req : ListEquipment(r, FALSE)
    \/ \E r \in Req : GetEquipment(r, FALSE)
    \/ \E r \in Req : UpdateEquipment(r, FALSE)
    \/ \E r \in Req : DeleteEquipment(r, FALSE)
    \/ \E r \in Req : Complete(r)

RaceSpec == Init /\ [][RaceNext]_vars

\* the bodies at the bounds of the binding tags: names of 0, 1, MaxNameLen
\* and MaxNameLen + 1 characters with descriptions of 0, MaxDescLen and
\* MaxDescLen + 1 characters
BoundaryBodies ==
    {Body(TRUE, Repeat("n", k), Repeat("d", m), "", 0, 0) :
        k \in {0, 1, MaxNameLen, MaxNameLen + 1},
        m \in {0, MaxDescLen, MaxDescLen + 1}}

\* One user creating and updating equipment, one request at a time, with
\* the bodies at the bounds; every repository call runs.
BindRequests ==
    RequestsOf(BodyRoutes, {BearerPrefix \o <<"good_u1">>}, {1}, BoundaryBodies)

BindNext ==
    \/ \E request \in BindRequests : AuthRequired(1, request)
    \/ HandlerCreate(1)
    \/ HandlerUpdate(1)
    \/ CreateEquipment(1, FALSE)
    \/ GetEquipment(1, FALSE)
    \/ UpdateEquipment(1, FALSE)
    \/ Complete(1)

BindSpec == Init /\ [][BindNext]_vars

\* the values SUPABASE_JWT_SECRET can have; "" is unset
Secrets == {"", "secret", "other"}

\* main up to router.Run: AuthRequired() reads the secret and panics when
\* it is empty, else the router starts with the middleware built
main ==
    /\ proc = "starting"
    /\ IF env = ""
       THEN proc' = "crashed" /\ jwtSecret' = jwtSecret
       ELSE proc' = "serving" /\ jwtSecret' = env
    /\ UNCHANGED <<store, nextId, now, req, served, env, cli>>

\* the variable gets another value in the environment
Setenv(value) ==
    /\ value # env
    /\ env' = value
    /\ UNCHANGED <<store, nextId, now, req, served, proc, jwtSecret, cli>>

\* the process has been launched and main has not run yet
StartInit ==
    /\ store = {}
    /\ nextId = 0
    /\ now = 1
    /\ req = [r \in Req |-> IdleReq]
    /\ served = 0
    /\ env \in Secrets
    /\ proc = "starting"
    /\ jwtSecret = ""
    /\ cli = NoCli

\* requests on /api/me without a header, with tokens signed with either
\* secret and with an unsigned token
StartRequests ==
    RequestsOf({"me"},
               {<<>>, BearerPrefix \o <<"good_u1">>, BearerPrefix \o <<"good_u2">>,
                BearerPrefix \o <<"wrongkey_u1">>, BearerPrefix \o <<"none_u1">>},
               {0}, {NoBody})

StartNext ==
    \/ main
    \/ \E value \in Secrets : Setenv(value)
    \/ \E request \in StartRequests : AuthRequired(1, request)
    \/ HandlerMe(1)
    \/ Complete(1)

StartSpec == StartInit /\ [][StartNext]_vars

(* -------------------------- generate-token.sh -------------------------- *)

BUFFER_SECONDS == 300

\* the expires_in Supabase answers a sign-in with, in seconds
ExpiresIn == {300, 301, 3600}

\* the times between two runs of the script, in seconds
Delays == {1, 300, 3299}

\* calculateExpiresAt: time.Now().Unix() + expires_in
calculateExpiresAt(t, expiresIn) == t + expiresIn

\* the object gettoken --json prints on stdout
TokenJSON(token, expiresIn, t) ==
    [json |-> TRUE, access_token |-> token, expires_in |-> expiresIn,
     expires_at |-> calculateExpiresAt(t, expiresIn)]

\* a line that is no JSON: what the log package writes on stderr
LogLine(msg) == [json |-> FALSE, access_token |-> 0, expires_in |-> 0,
                 expires_at |-> 0, msg |-> msg]

\* What $(go run cmd/gettoken/main.go --json 2>&1) can be at time t when
\* Supabase would issue the given token: the exit status and the captured
\* text, stdout and stderr together.  The program dies in log.Fatal, or
\* prints the object, after "No .env file found" on stderr when there is
\* no .env file.
GetTokenResults(t, token) ==
    {[status |-> 1, text |-> <<LogLine("SUPABASE_URL and SUPABASE_KEY must be set")>>],
     [status |-> 1, text |-> <<LogLine("Sign up failed")>>]}
    \cup {[status |-> 0, text |-> <<TokenJSON(token, e, t)>>] : e \in ExpiresIn}
    \cup {[status |-> 0, text |-> <<LogLine("No .env file found"), TokenJSON(token, e, t)>>] :
             e \in ExpiresIn}

\* jq -r '.field' on a text: the value when the text is one JSON object,
\* nothing when jq fails to parse it
JqExpiresAt(text) ==
    IF Len(text) = 1 /\ text[1].json THEN <<text[1].expires_at>> ELSE <<>>

JqAccessToken(text) ==
    IF Len(text) = 1 /\ text[1].json THEN <<text[1].access_token>> ELSE <<>>

\* $((EXPIRES_AT - NOW - BUFFER_SECONDS)): an empty EXPIRES_AT counts as 0
TimeLeft(expiresAt, t) ==
    (IF expiresAt = <<>> THEN 0 ELSE expiresAt[1]) - t - BUFFER_SECONDS

\* one run of generate-token.sh, gettoken answering with result if it is run
GenerateToken(result) ==
    /\ cli.steps < MaxCliSteps
    /\ LET NOW == cli.time
           cached == /\ cli.cache.exists
                     /\ TimeLeft(JqExpiresAt(cli.cache.text), NOW) > 0
       IN  cli' =
             IF cached
             THEN [cli EXCEPT !.out = JqAccessToken(cli.cache.text),
                              !.status = 0,
                              !.steps = @ + 1]
             ELSE IF result.status # 0
             THEN [cli EXCEPT !.out = <<>>,
                              !.status = 1,
                              !.steps = @ + 1]
             ELSE [cli EXCEPT !.cache = [exists |-> TRUE, text |-> result.text],
                              !.out = JqAccessToken(result.text),
                              !.status = 0,
                              !.issued = @ + 1,
                              !.steps = @ + 1]
    /\ UNCHANGED <<store, nextId, now, req, served, env, proc, jwtSecret>>

\* time passes between two runs
Wait(delay) ==
    /\ cli.steps < MaxCliSteps
    /\ cli' = [cli EXCEPT !.time = @ + delay, !.steps = @ + 1]
    /\ UNCHANGED <<store, nextId, now, req, served, env, proc, jwtSecret>>

TokenNext ==
    \/ \E result \in GetTokenResults(cli.time, cli.issued + 1) : GenerateToken(result)
    \/ \E delay \in Delays : Wait(delay)

TokenSpec == Init /\ [][TokenNext]_vars

(* ------------------------------ claims --------------------------------- *)

\* the token a header carries after "Bearer "
TokenOf(header) ==
    IF HasPrefix(header, BearerPrefix) /\ Len(header) = Len(BearerPrefix) + 1
    THEN DecodeToken(header[Len(header)])
    ELSE DecodeToken("")

\* C1: when GetEquipment, UpdateEquipment or DeleteEquipment is called by a
\* caller B on the id of an entity that exists and is owned by A # B, the
\* request ends Forbidden (403) with no equipment in the body and with no
\* repository call after FindByID; and no response ever carries equipment
\* of another owner than the request's verified caller.
C1_NonOwnerForbidden ==
    \A r \in Req :
        /\ (req[r].found = "row" /\ req[r].foundOwner # req[r].caller)
              => /\ req[r].pc = "done"
                 /\ req[r].resp.status = 403
                 /\ req[r].resp.body = <<>>
                 /\ req[r].calls = {"FindByID"}
        /\ req[r].caller # "" => req[r].caller = TokenOf(req[r].header).sub.val
        /\ \A i \in 1..Len(req[r].resp.body) :
              req[r].resp.body[i].user_id = req[r].caller

C1_Witness ==
    \E r \in Req :
        /\ req[r].pc = "done"
        /\ req[r].route = "delete"
        /\ req[r].found = "row"
        /\ req[r].foundOwner # req[r].caller
        /\ req[r].resp.status = 403
        /\ \E row \in store : row.id = req[r].id

\* a row of the table keeps its id, name and description over the step
RowKept(row) ==
    \E row2 \in store' :
        /\ row2.id = row.id
        /\ row2.name = row.name
        /\ row2.description = row.description

\* C2: under any interleaving, a row's name or description changes or the
\* row goes only in the Repository.Update or Repository.Delete step of a
\* request on that row's id whose verified caller is the row's user_id; the
\* table changes only in the repository step of a request that does not end
\* in 403 or 404; and a request that ended in 403 or 404 has called neither
\* Repository.Create, Update nor Delete.
C2_OnlyOwnerMutates ==
    /\ [](\A r \in Req :
             (req[r].pc = "done" /\ req[r].resp.status \in {403, 404})
                => req[r].calls \cap {"Create", "Update", "Delete"} = {})
    /\ [][/\ \A row \in store :
                ~RowKept(row) =>
                    \E r \in Req :
                        /\ req[r].pc \in {"UpdateEquipment", "DeleteEquipment"}
                        /\ req'[r].pc = "done"
                        /\ req[r].id = row.id
                        /\ req[r].caller = row.user_id
                        /\ TokenOf(req[r].header).sub.val = row.user_id
          /\ store' # store =>
                \E r \in Req :
                    /\ req[r].pc \in {"CreateEquipment", "UpdateEquipment", "DeleteEquipment"}
                    /\ req'[r].pc = "done"
                    /\ req'[r].resp.status \notin {403, 404}]_vars

C2_Witness ==
    \E r1, r2 \in Req :
        /\ req[r1].pc = "done"
        /\ req[r1].route = "update"
        /\ req[r1].resp.status = 200
        /\ req[r2].pc = "done"
        /\ req[r2].route = "delete"
        /\ req[r2].id = req[r1].id
        /\ req[r2].resp.status = 403
        /\ \E row \in store : row.id = req[r1].id /\ row.user_id = req[r1].caller

\* C3: a GetEquipment, UpdateEquipment or DeleteEquipment whose FindByID
\* ran and matched no row ends NotFound (404), whoever the caller is.
C3_MissingIdNotFound ==
    \A r \in Req :
        req[r].found \in {ErrNoRows, ErrSyntax}
            => req[r].pc = "done" /\ req[r].resp.status = 404

\* C4: the row Repository.Create inserts for a create request has the
\* user_id of the request's verified token subject, the name and description
\* of the body, a fresh server-side id and the server's time; it is the same
\* whatever user_id, id and created_at the body carries.
C4_CreateOwnerFromCaller ==
    [][\A r \in Req :
          (req[r].pc = "CreateEquipment" /\ req'[r].pc = "done" /\ ~req'[r].fault)
             => LET created == Equipment(nextId + 1, req[r].body.name,
                                         req[r].body.description,
                                         TokenOf(req[r].header).sub.val, now, now)
                IN  /\ store' = store \cup {created}
                    /\ created \notin store
                    /\ req'[r].resp.status = 201
                    /\ req'[r].resp.body = <<created>>]_vars

C4_Witness ==
    \E r \in Req :
        /\ req[r].pc = "done"
        /\ req[r].route = "create"
        /\ req[r].resp.status = 201
        /\ req[r].body.user_id \notin {"", req[r].caller}
        /\ req[r].body.id # req[r].resp.body[1].id
        /\ req[r].body.created_at # req[r].resp.body[1].created_at
        /\ req[r].resp.body[1].user_id = req[r].caller
        /\ req[r].resp.body[1] \in store

\* the header starts with the seven characters "Bearer "
StartsWithBearer(header) ==
    /\ Len(header) >= 7
    /\ \A i \in 1..7 : header[i] = BearerPrefix[i]

\* the token is well formed and carries an HMAC signature made with the
\* configured secret
SignedOK(token) ==
    /\ token.wellFormed
    /\ token.alg \in HMACAlgs
    /\ token.sigAlg = token.alg
    /\ token.sigKey = jwtSecret

\* the token has an expiry that is not after time t
Expired(token, t) == token.exp # 0 /\ t >= token.exp

\* one of the validation steps of the middleware fails at time t: no
\* header, no "Bearer " prefix, no valid HMAC signature, expired, or a
\* subject that is no string
Rejected(header, t) ==
    \/ header = <<>>
    \/ ~StartsWithBearer(header)
    \/ ~SignedOK(TokenOf(header))
    \/ Expired(TokenOf(header), t)
    \/ TokenOf(header).sub.kind # "string"

ServicePcs ==
    {"CreateEquipment", "ListEquipment", "GetEquipment", "UpdateEquipment",
     "DeleteEquipment"}

\* C5: a request on which a validation step of the middleware fails is
\* answered 401 by the middleware, and for it no handler runs, no service
\* method gets a caller and no repository method is called; a handler runs
\* only for a request whose token the middleware has verified.
C5_AbortStopsPipeline ==
    /\ [](\A r \in Req :
            /\ (req[r].pc # "idle" /\ ~req[r].ctx.set)
                  => /\ req[r].pc = "done"
                     /\ req[r].resp.status = 401
                     /\ ~req[r].handlerRan
                     /\ req[r].caller = ""
                     /\ req[r].calls = {}
            /\ (req[r].handlerRan \/ req[r].pc \in {"handler"} \cup ServicePcs)
                  => /\ req[r].ctx.set
                     /\ StartsWithBearer(req[r].header)
                     /\ SignedOK(TokenOf(req[r].header)))
    /\ [][\A r \in Req :
            (req[r].pc = "idle" /\ req'[r].pc # "idle" /\ Rejected(req'[r].header, now))
               => /\ req'[r].pc = "done"
                  /\ req'[r].resp.status = 401
                  /\ ~req'[r].ctx.set]_vars

C5_Witness ==
    \E r \in Req :
        /\ req[r].pc = "done"
        /\ req[r].route = "create"
        /\ TokenOf(req[r].header).sigKey = "other"
        /\ req[r].resp.status = 401
        /\ ~req[r].handlerRan
        /\ store = {}

MissingHeader == ErrorJSON(401, "missing authorization header")

MalformedHeader ==
    ErrorJSON(401, "invalid authorization header format, expected 'Bearer <token>'")

\* C6: a request without an Authorization header, or with an empty one, is
\* answered 401 "missing authorization header"; a request whose header is
\* not empty and does not start with "Bearer " is answered 401 "invalid
\* authorization header format"; a request whose header starts with
\* "Bearer " gets neither answer, so the token is parsed exactly then.
C6_HeaderChecksInOrder ==
    \A r \in Req :
        req[r].pc # "idle" =>
            /\ req[r].header = <<>>
                  => req[r].pc = "done" /\ req[r].resp = MissingHeader
            /\ (req[r].header # <<>> /\ ~StartsWithBearer(req[r].header))
                  => req[r].pc = "done" /\ req[r].resp = MalformedHeader
            /\ StartsWithBearer(req[r].header)
                  => req[r].resp \notin {MissingHeader, MalformedHeader}

C6_Witness ==
    \E r \in Req :
        /\ req[r].pc = "done"
        /\ req[r].header = <<"b", "e", "a", "r", "e", "r", " ", "good_u1">>
        /\ req[r].resp = MalformedHeader
        /\ ~req[r].handlerRan

InvalidOrExpired == ErrorJSON(401, "invalid or expired token")

\* the token is well formed, names an HMAC method and is signed with
\* another secret than the configured one
WrongSecret(token) ==
    /\ token.wellFormed
    /\ token.alg \in HMACAlgs
    /\ token.sigAlg = token.alg
    /\ token.sigKey # jwtSecret

\* C7 as claimed: a token signed with another secret is answered 401 with
\* an error that differs from the one an expired token is answered with.
C7_DistinctKinds ==
    \A r \in Req :
        (req[r].pc # "idle" /\ WrongSecret(TokenOf(req[r].header)))
            => /\ req[r].pc = "done"
               /\ req[r].resp.status = 401
               /\ req[r].resp.error #
                     AuthOutcome(BearerPrefix \o <<"expired_u1">>, now).resp.error

\* C7 as amended: a token signed with another secret and a correctly signed
\* token whose expiry is not after the current time are both answered 401
\* with the one error "invalid or expired token", and neither is accepted:
\* no context key is set and no handler runs.
C7_InvalidOrExpired ==
    /\ [](\A r \in Req :
            (/\ req[r].pc # "idle"
             /\ \/ WrongSecret(TokenOf(req[r].header))
                \/ /\ SignedOK(TokenOf(req[r].header))
                   /\ Expired(TokenOf(req[r].header), 1))
               => /\ req[r].pc = "done"
                  /\ req[r].resp = InvalidOrExpired
                  /\ ~req[r].ctx.set
                  /\ ~req[r].handlerRan)
    /\ [][\A r \in Req :
            (/\ req[r].pc = "idle"
             /\ req'[r].pc # "idle"
             /\ SignedOK(TokenOf(req'[r].header))
             /\ Expired(TokenOf(req'[r].header), now))
               => /\ req'[r].pc = "done"
                  /\ req'[r].resp = InvalidOrExpired
                  /\ ~req'[r].ctx.set]_vars

C7_Witness ==
    \E r \in Req :
        /\ req[r].pc = "done"
        /\ req[r].header = BearerPrefix \o <<"expiring_u1">>
        /\ req[r].resp = InvalidOrExpired
        /\ ~req[r].handlerRan

\* C8: a request whose token is correctly signed and unexpired but has no
\* subject, a subject that is no string, or the empty string as subject is
\* answered 401 by the middleware and no handler runs for it.
C8_SubjectRequired ==
    \A r \in Req :
        (/\ req[r].pc # "idle"
         /\ SignedOK(TokenOf(req[r].header))
         /\ ~Expired(TokenOf(req[r].header), MaxClock)
         /\ \/ TokenOf(req[r].header).sub.kind # "string"
            \/ TokenOf(req[r].header).sub.val = "")
           => /\ req[r].pc = "done"
              /\ req[r].resp.status = 401
              /\ ~req[r].ctx.set
              /\ ~req[r].handlerRan

\* C9: a request whose token names a signing method outside the HMAC family
\* is answered 401 whatever its claims and its signature; no context key is
\* set and no handler runs.
C9_OnlyHMAC ==
    \A r \in Req :
        (/\ req[r].pc # "idle"
         /\ TokenOf(req[r].header).wellFormed
         /\ TokenOf(req[r].header).alg \notin HMACAlgs)
           => /\ req[r].pc = "done"
              /\ req[r].resp.status = 401
              /\ req[r].ctx = NoCtx
              /\ ~req[r].handlerRan

C9_Witness ==
    \E r \in Req :
        /\ req[r].pc = "done"
        /\ req[r].header = BearerPrefix \o <<"none_signed_u2">>
        /\ req[r].resp.status = 401
        /\ req[r].ctx = NoCtx

\* C10: when the middleware has accepted a request, the user_id on its
\* context is the subject of its correctly signed token and the user_email
\* is the token's email when that is a string; and the caller the handler
\* hands the service is that subject.
C10_IdentityFromToken ==
    \A r \in Req :
        LET token == TokenOf(req[r].header)
        IN  /\ req[r].ctx.set
                 => /\ SignedOK(token)
                    /\ token.sub.kind = "string"
                    /\ req[r].ctx.user_id = token.sub.val
                    /\ req[r].ctx.user_email =
                          IF token.email.kind = "string" THEN token.email.val ELSE ""
            /\ (req[r].caller # "" \/ req[r].calls # {} \/ req[r].pc \in ServicePcs)
                 => /\ req[r].ctx.set
                    /\ req[r].caller = token.sub.val

C10_Witness ==
    \E r \in Req :
        /\ req[r].pc = "done"
        /\ req[r].route = "update"
        /\ req[r].resp.status = 200
        /\ req[r].body.user_id \notin {"", req[r].caller}
        /\ req[r].id # req[r].body.id
        /\ req[r].ctx.user_email # ""
        /\ req[r].caller = TokenOf(req[r].header).sub.val

\* C11: a successful update by the owner sets the row's name and
\* description to the values of the request body and leaves its id, user_id
\* and created_at as they were, whatever else the body carries; over any
\* step a row keeps its id's user_id and created_at, and a row with a new id
\* comes only from Repository.Create, with the id uuid.New has just made.
C11_UpdateFrame ==
    [][/\ \A r \in Req :
            (/\ req[r].pc = "UpdateEquipment"
             /\ req'[r].pc = "done"
             /\ req'[r].resp.status = 200)
               => \E row \in store :
                     /\ row.id = req[r].id
                     /\ store' = (store \ {row}) \cup
                                  {[row EXCEPT !.name = req[r].body.name,
                                               !.description = req[r].body.description,
                                               !.updated_at = now]}
                     /\ req'[r].resp.body =
                           <<[row EXCEPT !.name = req[r].body.name,
                                         !.description = req[r].body.description,
                                         !.updated_at = now]>>
       /\ \A row \in store, row2 \in store' :
            row2.id = row.id
               => /\ row2.user_id = row.user_id
                  /\ row2.created_at = row.created_at
       /\ \A row2 \in store' :
            RowsWithId(store, row2.id) = {}
               => /\ row2.id = nextId + 1
                  /\ nextId' = nextId + 1
                  /\ \E r \in Req : req[r].pc = "CreateEquipment" /\ req'[r].pc = "done"]_vars

C11_Witness ==
    \E r \in Req :
        /\ req[r].pc = "done"
        /\ req[r].route = "update"
        /\ req[r].resp.status = 200
        /\ req[r].body.user_id \notin {"", req[r].caller}
        /\ req[r].body.id # req[r].id
        /\ \E row \in store :
              /\ row.id = req[r].id
              /\ row.name = req[r].body.name
              /\ row.user_id = req[r].caller
              /\ row.created_at < row.updated_at
              /\ req[r].resp.body = <<row>>

\* C12: every successful update of a row makes its updated_at strictly
\* greater than the updated_at the row had before, also when two updates of
\* the row follow each other at once or are in flight together.
C12_UpdatedAtStrictlyIncreases ==
    [][\A r \in Req :
          (/\ req[r].pc = "UpdateEquipment"
           /\ req'[r].pc = "done"
           /\ req'[r].resp.status = 200)
             => \A row \in store, row2 \in store' :
                   (row.id = req[r].id /\ row2.id = req[r].id)
                      => row2.updated_at > row.updated_at]_vars

\* C13: every row of the table has updated_at >= created_at, and its
\* created_at is the time of the Repository.Create that inserted it: no
\* later step changes it.
C13_UpdatedNotBeforeCreated ==
    /\ [](\A row \in store :
             /\ row.updated_at >= row.created_at
             /\ row.created_at \in 1..now)
    /\ [][/\ \A row \in store, row2 \in store' :
                row2.id = row.id => row2.created_at = row.created_at
          /\ \A row2 \in store' :
                RowsWithId(store, row2.id) = {}
                   => row2.created_at = now /\ row2.updated_at = now]_vars

C13_Witness ==
    \E r \in Req, row \in store :
        /\ req[r].pc = "done"
        /\ req[r].route = "update"
        /\ req[r].resp.status = 200
        /\ row.id = req[r].id
        /\ row.created_at = 1
        /\ row.updated_at = MaxClock
        /\ \E row2 \in store : row2.created_at = MaxClock

\* the step is the repository call of a request on the id of the row that
\* changes it or removes it
Touches(row) ==
    \E r \in Req :
        /\ req[r].pc \in {"UpdateEquipment", "DeleteEquipment"}
        /\ req'[r].pc = "done"
        /\ req[r].id = row.id

\* C14: the entity a successful create answers with is the row it has
\* stored, owned by the caller; the row stays as it is over every step that
\* is no Repository.Update or Repository.Delete on its id; and a
\* GetEquipment by the owner on the id of a stored row answers 200 with that
\* row.  So a get by the creator after a create, with no update or delete
\* of the entity between them, returns the created entity, equal in id,
\* user_id, name, description, created_at and updated_at.
C14_CreateGetRoundTrip ==
    /\ [][/\ \A r \in Req :
                (/\ req[r].pc = "CreateEquipment"
                 /\ req'[r].pc = "done"
                 /\ req'[r].resp.status = 201)
                   => /\ Len(req'[r].resp.body) = 1
                      /\ req'[r].resp.body[1] \in store'
                      /\ req'[r].resp.body[1].user_id = req[r].caller
                      /\ RowsWithId(store', req'[r].resp.body[1].id)
                            = {req'[r].resp.body[1]}
          /\ \A row \in store : ~Touches(row) => row \in store'
          /\ \A r \in Req, row \in store :
                (/\ req[r].pc = "GetEquipment"
                 /\ req'[r].pc = "done"
                 /\ req[r].route = "get"
                 /\ row.id = req[r].id
                 /\ row.user_id = req[r].caller)
                   => /\ req'[r].resp.status = 200
                      /\ req'[r].resp.body = <<row>>]_vars
    /\ [](\A r1, r2 \in Req :
             (/\ req[r1].pc = "done" /\ req[r1].route = "create"
              /\ req[r1].resp.status = 201
              /\ req[r2].pc = "done" /\ req[r2].route = "get"
              /\ req[r2].caller = req[r1].caller
              /\ req[r2].id = req[r1].resp.body[1].id
              /\ req[r2].resp.status = 200)
                => req[r2].resp.body[1].id = req[r1].resp.body[1].id
                   /\ req[r2].resp.body[1].user_id = req[r1].resp.body[1].user_id
                   /\ req[r2].resp.body[1].created_at = req[r1].resp.body[1].created_at)

C14_Witness ==
    \E r1, r2 \in Req :
        /\ req[r1].pc = "done" /\ req[r1].route = "create"
        /\ req[r1].resp.status = 201
        /\ req[r2].pc = "done" /\ req[r2].route = "get"
        /\ req[r2].caller = req[r1].caller
        /\ req[r2].resp.status = 200
        /\ req[r2].resp.body = req[r1].resp.body
        /\ req[r2].resp.body[1].description # ""

\* the set of the elements of a sequence
Range(seq) == {seq[i] : i \in 1..Len(seq)}

\* C15: a list by caller C whose FindAll runs answers 200 with exactly the
\* rows of the table whose user_id is C, each once: every row of C is in
\* the body and no row of another user is; and in every state the body of
\* a list response holds only rows of the request's caller.
C15_ListExactlyOwn ==
    /\ [][\A r \in Req :
             (/\ req[r].pc = "ListEquipment"
              /\ req'[r].pc = "done"
              /\ ~req'[r].fault)
                => /\ req'[r].resp.status = 200
                   /\ Range(req'[r].resp.body)
                         = {row \in store : row.user_id = req[r].caller}
                   /\ Len(req'[r].resp.body)
                         = Cardinality({row \in store : row.user_id = req[r].caller})
                   /\ req[r].caller = TokenOf(req[r].header).sub.val]_vars
    /\ [](\A r \in Req :
             req[r].route = "list"
                => \A i \in 1..Len(req[r].resp.body) :
                      req[r].resp.body[i].user_id = req[r].caller)

C15_Witness ==
    \E r \in Req :
        /\ req[r].pc = "done"
        /\ req[r].route = "list"
        /\ req[r].resp.status = 200
        /\ Len(req[r].resp.body) = 1
        /\ req[r].resp.body[1] \in store
        /\ \E row \in store : row.user_id # req[r].caller

\* C16: a list by a caller who owns no row, whose FindAll runs, answers 200
\* with an empty JSON array as body: not null, and not an error.
C16_EmptyListIsArray ==
    [][\A r \in Req :
          (/\ req[r].pc = "ListEquipment"
           /\ req'[r].pc = "done"
           /\ ~req'[r].fault
           /\ {row \in store : row.user_id = req[r].caller} = {})
             => /\ req'[r].resp.status = 200
                /\ req'[r].resp.kind = "list"
                /\ req'[r].resp.body = <<>>]_vars

\* the id has been handed out by uuid.New and no row has it: with every
\* Repository.Create running, its row has been deleted
Deleted(id) == id \in 1..nextId /\ RowsWithId(store, id) = {}

\* C17: once the owner's delete of a row has succeeded (204) the row is
\* gone and its id never has a row again; and every get, update or delete
\* whose FindByID runs on a deleted id, whoever the caller is, ends 404
\* with no equipment in the body and no further repository call.
C17_DeletedStaysNotFound ==
    /\ [](\A r \in Req :
             (/\ req[r].pc = "done"
              /\ req[r].route = "delete"
              /\ req[r].resp.status = 204)
                => Deleted(req[r].id))
    /\ [][/\ \A id \in 1..MaxIds :
                Deleted(id) => RowsWithId(store', id) = {}
          /\ \A r \in Req :
                (/\ req[r].pc = "GetEquipment"
                 /\ req'[r].pc # "GetEquipment"
                 /\ Deleted(req[r].id))
                   => /\ req'[r].pc = "done"
                      /\ req'[r].resp.status = 404
                      /\ req'[r].resp.body = <<>>
                      /\ req'[r].calls = {"FindByID"}]_vars

C17_Witness ==
    \E r1, r2 \in Req :
        /\ req[r1].pc = "done"
        /\ req[r1].route = "delete"
        /\ req[r1].resp.status = 204
        /\ req[r2].pc = "done"
        /\ req[r2].route = "update"
        /\ req[r2].id = req[r1].id
        /\ req[r2].caller # req[r1].caller
        /\ req[r2].resp.status = 404
        /\ Deleted(req[r1].id)

\* C18: an update whose row is deleted by another request after its
\* GetEquipment check has passed and before its Repository.Update ends
\* NotFound (404), not Internal (500), and inserts no row.
C18_RacingUpdateNotFound ==
    [][\A r \in Req :
          (/\ req[r].pc = "UpdateEquipment"
           /\ req'[r].pc = "done"
           /\ RowsWithId(store, req[r].id) = {})
             => /\ req'[r].resp.status = 404
                /\ store' = store]_vars

\* C19: of two deletes of one row in flight together at most one reports
\* success: the one whose Repository.Delete comes after the other's gets
\* NotFound from it.
C19_RacingDeleteNotFound ==
    \A r1, r2 \in Req :
        (/\ r1 # r2
         /\ req[r1].pc = "done" /\ req[r1].route = "delete"
         /\ req[r2].pc = "done" /\ req[r2].route = "delete"
         /\ req[r1].id = req[r2].id)
           => ~(req[r1].resp.status = 204 /\ req[r2].resp.status = 204)

\* the status of success on a route
SuccessStatus(route) ==
    CASE route = "create" -> 201
      [] route = "delete" -> 204
      [] OTHER -> 200

\* the status the outcome of the service calls for, from what the
\* repository returned to it: no row is NotFound, a row of another owner is
\* Forbidden, any other error is Internal, no error is success
OutcomeStatus(r) ==
    IF req[r].found = ErrNoRows THEN 404
    ELSE IF req[r].found = "row" /\ req[r].foundOwner # req[r].caller THEN 403
    ELSE IF req[r].fault \/ req[r].found \notin {"", "row"} THEN 500
    ELSE SuccessStatus(req[r].route)

\* C20: a request whose body fails validation is answered 400 before the
\* service is called; a request for which the service was called is
\* answered 404 when the service returned NotFound, 403 when it returned
\* Forbidden, 500 on any other failure, and 201 (create), 200 (get, list,
\* update) or 204 (delete) on success, and with no other status.
C20_StatusMapping ==
    \A r \in Req :
        (req[r].pc = "done" /\ req[r].handlerRan /\ req[r].route # "me") =>
            /\ (/\ req[r].route \in BodyRoutes
                /\ BindError(req[r].body) # ""
                /\ (req[r].route = "create" \/ req[r].ctx.user_id # ""))
                  => req[r].resp.status = 400 /\ req[r].calls = {}
            /\ req[r].calls # {}
                  => /\ req[r].resp.status = OutcomeStatus(r)
                     /\ req[r].resp.status \in {200, 201, 204, 403, 404, 500}
            /\ req[r].resp.status = 400
                  => req[r].route \in BodyRoutes /\ BindError(req[r].body) # ""
            /\ req[r].resp.status \in {403, 404, 500} => req[r].calls # {}
            /\ req[r].resp.status \in {200, 201, 204}
                  => /\ req[r].resp.status = SuccessStatus(req[r].route)
                     /\ req[r].calls # {}
                     /\ ~req[r].fault

C20_Witness ==
    \E r \in Req :
        /\ req[r].pc = "done"
        /\ req[r].route = "delete"
        /\ req[r].found = "row"
        /\ req[r].foundOwner # req[r].caller
        /\ req[r].resp.status = 403
        /\ \E row \in store : row.id # req[r].id

\* the texts of the errors of the persistence layer
PersistenceErrors == {ErrNoRows, ErrConn, ErrSyntax}

\* C21: a request one of whose repository calls failed with a persistence
\* error is answered 500 with no equipment in the body and with the one
\* stable message of its handler; no member of the body carries the text
\* of the persistence error, on create, get, list, update and delete alike.
C21_NoRawErrorInBody ==
    \A r \in Req :
        (req[r].pc = "done" /\ (req[r].fault \/ req[r].found = ErrSyntax))
            => /\ req[r].resp.status = 500
               /\ req[r].resp.body = <<>>
               /\ req[r].resp.kind = "error"
               /\ req[r].resp.error \in
                     {"failed to create equipment", "failed to get equipment",
                      "failed to list equipment", "failed to update equipment",
                      "failed to delete equipment"}
               /\ req[r].resp.detail = ""
               /\ \A e \in PersistenceErrors :
                     /\ req[r].resp.error # e
                     /\ req[r].resp.detail # "failed to create equipment: " \o e

\* C22: a request that reaches the create, get, list, update or delete
\* handler with no user_id on its context, or the empty one, is answered
\* 401 whatever its body and id, and the service is not called.
C22_NoIdentityUnauthorized ==
    \A r \in Req :
        (/\ req[r].handlerRan
         /\ req[r].route # "me"
         /\ GetUserID(req[r].ctx) = "")
           => /\ req[r].pc = "done"
              /\ req[r].resp.status = 401
              /\ req[r].calls = {}

\* the payload the claim accepts: a JSON object whose name has 1 to 100
\* characters and whose description has at most 500
Accepted(body) ==
    /\ body.json
    /\ Len(body.name) >= 1
    /\ Len(body.name) <= 100
    /\ Len(body.description) <= 500

\* C23: a create or update is accepted exactly when its name has 1 to 100
\* characters and its description at most 500: a payload outside these
\* bounds is answered 400 with no repository call, a payload within them is
\* never answered 400, and the table changes only in a step of a request
\* whose payload is within them.
C23_LengthBounds ==
    /\ [](\A r \in Req :
             (req[r].route \in BodyRoutes /\ req[r].pc \notin {"idle", "handler"})
                => /\ ~Accepted(req[r].body)
                         => /\ req[r].pc = "done"
                            /\ req[r].resp.status = 400
                            /\ req[r].calls = {}
                   /\ Accepted(req[r].body) => req[r].resp.status # 400)
    /\ [][store' # store
             => \E r \in Req : req'[r] # req[r] /\ Accepted(req[r].body)]_vars

C23_Witness ==
    \E r \in Req, row \in store :
        /\ Len(row.name) = 100
        /\ Len(row.description) = 500
        /\ req[r].pc = "done"
        /\ req[r].route = "update"
        /\ req[r].id = row.id
        /\ Len(req[r].body.name) = 1
        /\ Len(req[r].body.description) = 501
        /\ req[r].resp.status = 400

\* C24: the rows of the table have pairwise distinct ids, all of them made
\* by uuid.New in Repository.Create: a create inserts its row under the id
\* just made, which no row has and which is not taken from the body, and
\* Repository.Create puts that id on the entity whatever id it came with.
C24_IdsDistinctServerSide ==
    /\ [](/\ \A row1, row2 \in store : row1.id = row2.id => row1 = row2
          /\ \A row \in store : row.id \in 1..nextId
          /\ \A id \in 0..MaxIds :
                LET res == RepoCreate(store, nextId + 1, now,
                                      Equipment(id, "a", "x", "u1", 0, 0), FALSE)
                IN  /\ res.equipment.id = nextId + 1
                    /\ res.store = store \cup {res.equipment})
    /\ [][\A r \in Req :
             (/\ req[r].pc = "CreateEquipment"
              /\ req'[r].pc = "done"
              /\ req'[r].resp.status = 201)
                => /\ RowsWithId(store, nextId + 1) = {}
                   /\ store' \ store = {req'[r].resp.body[1]}
                   /\ req'[r].resp.body[1].id = nextId + 1
                   /\ nextId' = nextId + 1]_vars

C24_Witness ==
    \E r \in Req, row \in store :
        /\ req[r].pc = "done"
        /\ req[r].route = "create"
        /\ req[r].resp.status = 201
        /\ req[r].body.id # 0
        /\ row.id # req[r].resp.body[1].id
        /\ row.name = req[r].resp.body[1].name
        /\ row.user_id = req[r].resp.body[1].user_id
        /\ req[r].resp.body[1] \in store

\* C25: when SUPABASE_JWT_SECRET is unset as main builds the middleware the
\* process crashes, and a process that is not serving has taken no request
\* and written no response; the secret tokens are verified with is the one
\* read when the middleware was built: it is not empty, it stays the same
\* whatever the environment becomes, and a bearer token is accepted exactly
\* when it is signed with it.
C25_SecretReadOnceAtStartup ==
    /\ [](/\ proc # "serving"
                => served = 0 /\ \A r \in Req : req[r] = IdleReq
          /\ proc = "crashed" => jwtSecret = ""
          /\ proc = "serving" => jwtSecret # ""
          /\ \A r \in Req :
                (req[r].pc # "idle" /\ StartsWithBearer(req[r].header))
                   => (req[r].ctx.set <=> TokenOf(req[r].header).sigKey = jwtSecret))
    /\ [][/\ (proc = "starting" /\ proc' # "starting")
                => /\ env = "" => proc' = "crashed" /\ UNCHANGED <<req, served>>
                   /\ env # "" => proc' = "serving" /\ jwtSecret' = env
          /\ proc # "starting" => proc' = proc /\ jwtSecret' = jwtSecret]_vars

C25_Witness ==
    \E r \in Req :
        /\ proc = "serving"
        /\ env = ""
        /\ jwtSecret = "other"
        /\ req[r].pc = "done"
        /\ req[r].header = BearerPrefix \o <<"wrongkey_u1">>
        /\ req[r].resp.status = 200

\* the cache file exists and holds an expires_at more than 300 seconds
\* after the current time
CacheFresh ==
    /\ cli.cache.exists
    /\ JqExpiresAt(cli.cache.text) # <<>>
    /\ JqExpiresAt(cli.cache.text)[1] > cli.time + 300

\* C26: a run of the script with a cache file whose expires_at is more
\* than 300 seconds ahead writes the cached access token and makes no new
\* one; any other run, when gettoken succeeds, makes a new token, writes it
\* to the cache file and writes it out.
C26_CacheDecision ==
    [][(cli'.steps # cli.steps /\ cli'.time = cli.time)
          => /\ CacheFresh
                   => /\ cli'.out = JqAccessToken(cli.cache.text)
                      /\ cli'.out # <<>>
                      /\ cli'.issued = cli.issued
                      /\ cli'.cache = cli.cache
             /\ (~CacheFresh /\ cli'.status = 0)
                   => /\ cli'.issued = cli.issued + 1
                      /\ JqAccessToken(cli'.cache.text) = <<cli'.issued>>
                      /\ cli'.out = <<cli'.issued>>]_vars

\* C27: Repository.Delete on an id that no row has returns no error and
\* leaves the table as it is, so deleting an id twice gives the table and
\* the nil error that deleting it once gives; and a delete whose row is
\* gone when its Repository.Delete runs changes nothing and gets nil.
C27_DeleteIdempotent ==
    /\ [](\A id \in 1..MaxIds :
             LET once == RepoDelete(store, id, FALSE)
                 twice == RepoDelete(once.store, id, FALSE)
             IN  /\ once.err = ""
                 /\ once.store = {row \in store : row.id # id}
                 /\ twice.err = once.err
                 /\ twice.store = once.store
                 /\ RowsWithId(store, id) = {} => once.store = store)
    /\ [][\A r \in Req :
             (/\ req[r].pc = "DeleteEquipment"
              /\ req'[r].pc = "done"
              /\ RowsWithId(store, req[r].id) = {})
                => /\ store' = store
                   /\ req'[r].resp.status = 204]_vars

C27_Witness ==
    \E r1, r2 \in Req :
        /\ r1 # r2
        /\ req[r1].pc = "done" /\ req[r1].calls = {"FindByID", "Delete"}
        /\ req[r2].pc = "done" /\ req[r2].calls = {"FindByID", "Delete"}
        /\ req[r1].id = req[r2].id
        /\ req[r1].resp.status = 204
        /\ req[r2].resp.status = 204
        /\ RowsWithId(store, req[r1].id) = {}
        /\ req[r1].id \in 1..nextId

\* C28: for a table, FindAll returns the rows of an owner in one order,
\* ascending by name, also when the owner has several rows of one name:
\* two calls on the same table return the same sequence.
C28_FindAllDeterministic ==
    \A userID \in Users :
        \A rows1, rows2 \in FindAllOrders(store, userID) : rows1 = rows2

\* the name and description a request body carries
Pair(body) == <<body.name, body.description>>

\* C29: when two updates by the owner of one row, in flight together, have
\* both succeeded, the row's name and description are those of one of the
\* two requests, not the name of one with the description of the other;
\* every successful Repository.Update leaves the row with the name and the
\* description of its own request.
C29_NoMixedUpdate ==
    /\ [](\A r1, r2 \in Req :
             (/\ r1 # r2
              /\ req[r1].pc = "done" /\ req[r1].route = "update"
              /\ req[r2].pc = "done" /\ req[r2].route = "update"
              /\ req[r1].id = req[r2].id
              /\ req[r1].resp.status = 200
              /\ req[r2].resp.status = 200)
                => \A row \in RowsWithId(store, req[r1].id) :
                      <<row.name, row.description>>
                         \in {Pair(req[r1].body), Pair(req[r2].body)})
    /\ [][\A r \in Req :
             (/\ req[r].pc = "UpdateEquipment"
              /\ req'[r].pc = "done"
              /\ req'[r].resp.status = 200)
                => \A row \in RowsWithId(store', req[r].id) :
                      <<row.name, row.description>> = Pair(req[r].body)]_vars

C29_Witness ==
    \E r1, r2 \in Req :
        /\ r1 # r2
        /\ req[r1].pc = "done" /\ req[r1].route = "update"
        /\ req[r2].pc = "done" /\ req[r2].route = "update"
        /\ req[r1].id = req[r2].id
        /\ req[r1].resp.status = 200
        /\ req[r2].resp.status = 200
        /\ req[r1].body.name # req[r2].body.name
        /\ req[r1].body.description # req[r2].body.description
        /\ req[r1].resp.body[1].updated_at = req[r2].resp.body[1].updated_at
        /\ \E row \in RowsWithId(store, req[r1].id) :
              <<row.name, row.description>> = Pair(req[r1].body)

\* C30: an update by an authenticated caller whose body does not bind is
\* answered 400 with the binding error and with no repository call,
\* whether or not a row has the id and whoever owns it: the response is a
\* function of the body alone.
C30_UpdateValidatesFirst ==
    \A r \in Req :
        (/\ req[r].route = "update"
         /\ req[r].pc \notin {"idle", "handler"}
         /\ req[r].ctx.set
         /\ req[r].ctx.user_id # ""
         /\ ~Accepted(req[r].body))
           => /\ req[r].pc = "done"
              /\ req[r].resp = ErrorJSON(400, BindError(req[r].body))
              /\ req[r].calls = {}
              /\ req[r].found = ""

C30_Witness ==
    \E r \in Req, row \in store :
        /\ req[r].pc = "done"
        /\ req[r].route = "update"
        /\ req[r].resp.status = 400
        /\ req[r].body.json
        /\ row.id = req[r].id
        /\ row.user_id # req[r].ctx.user_id
        /\ req[r].ctx.user_id # ""
        /\ \E id \in 1..MaxIds : RowsWithId(store, id) = {}

====
